---- MODULE Spec2Model ----
(***************************************************************************)
(* Model of the flight-search tool adapter (app/tools/serpapi_tools.py,    *)
(* GoogleFlightsTool) and of the chat page (app/app.py).                   *)
(*                                                                         *)
(* Python values are records of one shape, so that None, strings,          *)
(* integers and booleans can live in the same dictionary and be compared.  *)
(* A dictionary is a function from key strings to such values.             *)
(***************************************************************************)
EXTENDS Integers, Sequences, FiniteSets, TLC

VARIABLES environ, self, pc, args, request, branch, outcome, ret,
          session_keys, session_messages, session_agent, widgets, page,
          run_reset, submitted, returned_runs

flightVars == <<environ, self, pc, args, request, branch, outcome, ret>>
chatVars == <<session_keys, session_messages, session_agent, widgets, page,
              run_reset, submitted, returned_runs>>
vars == <<environ, self, pc, args, request, branch, outcome, ret,
          session_keys, session_messages, session_agent, widgets, page,
          run_reset, submitted, returned_runs>>

----------------------------------------------------------------------------
(* Python values *)

None == [kind |-> "none", s |-> "", n |-> 0, b |-> FALSE]
StrV(x) == [kind |-> "str", s |-> x, n |-> 0, b |-> FALSE]
IntV(x) == [kind |-> "int", s |-> "", n |-> x, b |-> FALSE]
BoolV(x) == [kind |-> "bool", s |-> "", n |-> 0, b |-> x]

\* Python truth value testing, as applied by "if x:".
Truthy(v) ==
    CASE v.kind = "none" -> FALSE
      [] v.kind = "str" -> v.s # ""
      [] v.kind = "int" -> v.n # 0
      [] v.kind = "bool" -> v.b

\* Mutant: the key is written without the test.
IsNotNone_Always(v) == TRUE

\* "x is not None"
IsNotNone(v) == v.kind # "none"

EmptyDict == [k \in {} |-> None]

\* d[k] = v
Put(d, k, v) == [x \in (DOMAIN d) \cup {k} |-> IF x = k THEN v ELSE d[x]]

\* if c: d[k] = v
PutIf(c, d, k, v) == IF c THEN Put(d, k, v) ELSE d

----------------------------------------------------------------------------
(* The signature of GoogleFlightsTool.forward *)

RequiredNames == {"departure_id", "arrival_id", "outbound_date"}

StrOptional == {"return_date", "currency", "booking_token", "departure_token",
                "locale", "hl", "gl", "multi_city_json", "outbound_times",
                "return_times", "layover_duration", "exclude_conns"}

IntOptional == {"type", "travel_class", "adults", "children", "infants_in_seat",
                "infants_on_lap", "stops", "max_price", "sort_by", "bags",
                "emissions", "max_duration"}

BoolOptional == {"deep_search", "show_hidden", "no_cache", "async_search"}

OptionalNames == StrOptional \cup IntOptional \cup BoolOptional

TokenNames == {"booking_token", "departure_token"}

ParamNames == RequiredNames \cup OptionalNames

\* The default each parameter takes when the call omits it.
Default(p) ==
    CASE p = "adults" -> IntV(1)
      [] p \in {"children", "infants_in_seat", "infants_on_lap"} -> IntV(0)
      [] p = "currency" -> StrV("USD")
      [] p = "locale" -> StrV("en-US")
      [] p = "hl" -> StrV("en")
      [] p = "gl" -> StrV("us")
      [] p \in {"deep_search", "show_hidden"} -> BoolV(FALSE)
      [] OTHER -> None

\* The value bound to parameter p by a call with keyword arguments a.
Arg(a, p) == IF p \in DOMAIN a THEN a[p] ELSE Default(p)

----------------------------------------------------------------------------
(* Request construction *)

\* Mutant: the lookup request forgets the language field.
get_booking_options_data_NoHl(slf, booking_token, hl, gl, currency) ==
    [k \in {"engine", "api_key", "booking_token", "gl", "currency"} |->
        CASE k = "engine" -> StrV("google_flights")
          [] k = "api_key" -> slf["api_key"]
          [] k = "booking_token" -> booking_token
          [] k = "gl" -> gl
          [] k = "currency" -> currency]

\* params of _get_booking_options_data
get_booking_options_data(slf, booking_token, hl, gl, currency) ==
    [k \in {"engine", "api_key", "booking_token", "hl", "gl", "currency"} |->
        CASE k = "engine" -> StrV("google_flights")
          [] k = "api_key" -> slf["api_key"]
          [] k = "booking_token" -> booking_token
          [] k = "hl" -> hl
          [] k = "gl" -> gl
          [] k = "currency" -> currency]

\* The fixed part of the search request.
base_params(slf, a) ==
    [k \in {"engine", "api_key", "hl", "gl", "currency", "locale", "deep_search"} |->
        CASE k = "engine" -> StrV("google_flights")
          [] k = "api_key" -> slf["api_key"]
          [] k = "hl" -> Arg(a, "hl")
          [] k = "gl" -> Arg(a, "gl")
          [] k = "currency" -> Arg(a, "currency")
          [] k = "locale" -> Arg(a, "locale")
          [] k = "deep_search" -> Arg(a, "deep_search")]

\* The conditional part of the search request, in the order of the code.
search_params(slf, a) ==
    LET p0 == base_params(slf, a)
        p1 == PutIf(Truthy(Arg(a, "departure_id")), p0, "departure_id", Arg(a, "departure_id"))
        p2 == PutIf(Truthy(Arg(a, "arrival_id")), p1, "arrival_id", Arg(a, "arrival_id"))
        p3 == PutIf(Truthy(Arg(a, "outbound_date")), p2, "outbound_date", Arg(a, "outbound_date"))
        p4 == PutIf(Truthy(Arg(a, "return_date")), p3, "return_date", Arg(a, "return_date"))
        p5 == PutIf(IsNotNone(Arg(a, "type")), p4, "type", Arg(a, "type"))
        p6 == PutIf(IsNotNone(Arg(a, "travel_class")), p5, "travel_class", Arg(a, "travel_class"))
        p7 == PutIf(IsNotNone(Arg(a, "adults")), p6, "adults", Arg(a, "adults"))
        p8 == PutIf(IsNotNone(Arg(a, "children")), p7, "children", Arg(a, "children"))
        p9 == PutIf(IsNotNone(Arg(a, "infants_in_seat")), p8, "infants_in_seat", Arg(a, "infants_in_seat"))
        p10 == PutIf(IsNotNone(Arg(a, "infants_on_lap")), p9, "infants_on_lap", Arg(a, "infants_on_lap"))
        p11 == PutIf(IsNotNone(Arg(a, "stops")), p10, "stops", Arg(a, "stops"))
        p12 == PutIf(IsNotNone(Arg(a, "max_price")), p11, "max_price", Arg(a, "max_price"))
        p13 == PutIf(IsNotNone(Arg(a, "sort_by")), p12, "sort_by", Arg(a, "sort_by"))
        p14 == PutIf(IsNotNone(Arg(a, "bags")), p13, "bags", Arg(a, "bags"))
        p15 == PutIf(IsNotNone(Arg(a, "show_hidden")), p14, "show_hidden", Arg(a, "show_hidden"))
        p16 == PutIf(IsNotNone(Arg(a, "departure_token")), p15, "departure_token", Arg(a, "departure_token"))
        p17 == PutIf(IsNotNone(Arg(a, "multi_city_json")), p16, "multi_city_json", Arg(a, "multi_city_json"))
        p18 == PutIf(IsNotNone(Arg(a, "outbound_times")), p17, "outbound_times", Arg(a, "outbound_times"))
        p19 == PutIf(IsNotNone(Arg(a, "return_times")), p18, "return_times", Arg(a, "return_times"))
        p20 == PutIf(IsNotNone(Arg(a, "emissions")), p19, "emissions", Arg(a, "emissions"))
        p21 == PutIf(IsNotNone(Arg(a, "layover_duration")), p20, "layover_duration", Arg(a, "layover_duration"))
        p22 == PutIf(IsNotNone(Arg(a, "exclude_conns")), p21, "exclude_conns", Arg(a, "exclude_conns"))
        p23 == PutIf(IsNotNone(Arg(a, "max_duration")), p22, "max_duration", Arg(a, "max_duration"))
        p24 == PutIf(IsNotNone(Arg(a, "no_cache")), p23, "no_cache", Arg(a, "no_cache"))
        p25 == PutIf(IsNotNone(Arg(a, "async_search")), p24, "async", Arg(a, "async_search"))
    IN p25

\* The branch forward takes: its first statement tests the booking token.
forward_branch(a) == IF Truthy(Arg(a, "booking_token")) THEN "booking" ELSE "search"

\* Mutant: the booking token is added to the search request.
forward_request_Merged(slf, a) ==
    IF forward_branch(a) = "booking"
    THEN Put(search_params(slf, a), "booking_token", Arg(a, "booking_token"))
    ELSE search_params(slf, a)

\* Mutant: a round trip without a return date is refused before dispatch.
forward_request_Validated(slf, a) ==
    IF Arg(a, "type") = IntV(1) /\ ~Truthy(Arg(a, "return_date")) THEN EmptyDict
    ELSE IF forward_branch(a) = "booking"
    THEN get_booking_options_data(slf, Arg(a, "booking_token"), Arg(a, "hl"),
                                  Arg(a, "gl"), Arg(a, "currency"))
    ELSE search_params(slf, a)

\* Mutant: a departure token short-circuits the search like a booking token.
forward_request_TokenOnly(slf, a) ==
    IF forward_branch(a) = "booking"
    THEN get_booking_options_data(slf, Arg(a, "booking_token"), Arg(a, "hl"),
                                  Arg(a, "gl"), Arg(a, "currency"))
    ELSE IF IsNotNone(Arg(a, "departure_token"))
    THEN Put(base_params(slf, a), "departure_token", Arg(a, "departure_token"))
    ELSE search_params(slf, a)

\* The dictionary forward hands to GoogleSearch.
forward_request(slf, a) ==
    IF forward_branch(a) = "booking"
    THEN get_booking_options_data(slf, Arg(a, "booking_token"), Arg(a, "hl"),
                                  Arg(a, "gl"), Arg(a, "currency"))
    ELSE search_params(slf, a)

\* Mutant: forward keeps the booking token of the call on the instance.
forward_self_KeepsToken(slf, a) == Put(slf, "booking_token", Arg(a, "booking_token"))

\* The instance attributes after forward: its body assigns none of them.
forward_self(slf, a) == slf

\* GoogleFlightsTool.__init__: the credential is read from the environment.
init_self(env) == [k \in {"api_key"} |-> env]

----------------------------------------------------------------------------
(* Dispatch to the provider *)

NoResults == [k \in {} |-> ""]

\* What the provider client may do with a request: return a dictionary
\* (a result, or the provider's own error report) or raise an Exception.
ProviderResults == {[k \in {"best_flights"} |-> "F1"],
                    [k \in {"error"} |-> "Invalid API key"]}
ExceptionMessages == {"connection timed out"}

Returned(d) == [raised |-> FALSE, value |-> d]
Raised(m) == [raised |-> TRUE, value |-> [k \in {"exception"} |-> m]]

\* Mutant: the lookup branch lets the exception escape.
booking_try_NoExcept(o) == IF o.raised THEN Raised(o.msg) ELSE Returned(o.results)

\* try/except around GoogleSearch in _get_booking_options_data
booking_try(o) ==
    IF o.raised THEN Returned([k \in {"error"} |-> o.msg]) ELSE Returned(o.results)

\* try/except around GoogleSearch in forward
forward_try(o) ==
    IF o.raised THEN Returned([k \in {"error"} |-> o.msg]) ELSE Returned(o.results)

----------------------------------------------------------------------------
(* Calls *)

\* At most MaxOther optional parameters besides the two tokens are passed.
MaxOther == 1

Sample(p) ==
    CASE p = "departure_id" -> "CDG"
      [] p = "arrival_id" -> "LAX"
      [] p = "outbound_date" -> "2025-06-15"
      [] p = "return_date" -> "25/06/2025"
      [] p = "booking_token" -> "XYZ"
      [] p = "departure_token" -> "TOK"
      [] p = "currency" -> "EUR"
      [] p = "locale" -> "fr-FR"
      [] p = "hl" -> "fr"
      [] p = "gl" -> "fr"
      [] OTHER -> "1,2"

\* The values a caller may pass for parameter p.
Values(p) ==
    IF p \in RequiredNames \cup TokenNames THEN {StrV(""), StrV(Sample(p))}
    ELSE IF p \in StrOptional THEN {None, StrV(""), StrV(Sample(p))}
    ELSE IF p \in IntOptional THEN {None, IntV(0), IntV(1), IntV(3)}
    ELSE {None, BoolV(FALSE), BoolV(TRUE)}

RECURSIVE SubsetsUpTo(_, _)
SubsetsUpTo(S, k) ==
    IF k = 0 THEN {{}}
    ELSE LET prev == SubsetsUpTo(S, k - 1)
         IN prev \cup {T \cup {p} : T \in prev, p \in S}

RECURSIVE ArgsOver(_)
ArgsOver(T) ==
    IF T = {} THEN {EmptyDict}
    ELSE LET p == CHOOSE x \in T : TRUE
         IN {Put(f, p, v) : f \in ArgsOver(T \ {p}), v \in Values(p)}

\* The sets of optional parameters, tokens aside, that one call may pass.
OtherSets == SubsetsUpTo(OptionalNames \ TokenNames, MaxOther)

\* Calls of the interleaved specification: route and tokens only.
ConcArgs ==
    UNION {{Put(Put(f, "arrival_id", StrV("LAX")), "outbound_date", StrV("2025-06-15")) :
               f \in ArgsOver({"departure_id"} \cup T)} : T \in SUBSET TokenNames}

Callers == {"c1", "c2"}

NoOutcome == [raised |-> FALSE, results |-> NoResults, msg |-> ""]
NoRet == Returned(NoResults)

\* forward up to the point where the request is handed to GoogleSearch.
Call(c, a) ==
    /\ pc[c] = "idle"
    /\ pc' = [pc EXCEPT ![c] = "dispatched"]
    /\ args' = [args EXCEPT ![c] = a]
    /\ branch' = [branch EXCEPT ![c] = forward_branch(a)]
    /\ request' = [request EXCEPT ![c] = forward_request(self, a)]
    /\ self' = forward_self(self, a)
    /\ UNCHANGED <<environ, outcome, ret>>

\* The provider client answers or raises; forward returns.
Reply(c, o) ==
    /\ pc[c] = "dispatched"
    /\ pc' = [pc EXCEPT ![c] = "returned"]
    /\ outcome' = [outcome EXCEPT ![c] = o]
    /\ ret' = [ret EXCEPT ![c] = IF branch[c] = "booking" THEN booking_try(o)
                                                           ELSE forward_try(o)]
    /\ args' = [args EXCEPT ![c] = EmptyDict]
    /\ request' = [request EXCEPT ![c] = EmptyDict]
    /\ UNCHANGED <<environ, self, branch>>

ProviderReturns(c) ==
    \E r \in ProviderResults : Reply(c, [raised |-> FALSE, results |-> r, msg |-> ""])

ProviderRaises(c) ==
    \E m \in ExceptionMessages : Reply(c, [raised |-> TRUE, results |-> NoResults, msg |-> m])

\* The caller takes the returned value.
Finish(c) ==
    /\ pc[c] = "returned"
    /\ pc' = [pc EXCEPT ![c] = "idle"]
    /\ branch' = [branch EXCEPT ![c] = "search"]
    /\ outcome' = [outcome EXCEPT ![c] = NoOutcome]
    /\ ret' = [ret EXCEPT ![c] = NoRet]
    /\ UNCHANGED <<environ, self, args, request>>

----------------------------------------------------------------------------
(* The chat page: one Streamlit session, the script rerun on every event *)

\* At most MaxPrompts prompts are submitted in a session.
MaxPrompts == 2

MinSteps == 1
DefaultMaxSteps == 20
MinInterval == 1
DefaultPlanningInterval == 5

ModelIds == {"gemini/gemini-2.5-pro-exp-03-25", "gemini/gemini-2.0-flash-lite"}

\* The values the sidebar controls may hold.
WidgetValues ==
    [memory : BOOLEAN, model_id : ModelIds,
     max_steps : {MinSteps, DefaultMaxSteps},
     planning_interval : {MinInterval, DefaultPlanningInterval}]

\* The controls as the page first shows them.
DefaultWidgets ==
    [memory |-> TRUE, model_id |-> "gemini/gemini-2.0-flash-lite",
     max_steps |-> DefaultMaxSteps, planning_interval |-> DefaultPlanningInterval]

Prompts == {"p1", "p2"}
Responses == {"r1", "r2"}

Message(role, content) == [role |-> role, content |-> content]

NoAgent == [model_id |-> "", max_steps |-> 0, planning_interval |-> 0]

\* Mutant: the history is emptied on every rerun.
init_messages_Always(keys, msgs) == <<>>

\* if "messages" not in st.session_state: st.session_state.messages = []
init_messages(keys, msgs) == IF "messages" \notin keys THEN <<>> ELSE msgs

\* CodeAgent(model=model, max_steps=max_steps, planning_interval=planning_interval)
CodeAgent(w) ==
    [model_id |-> w.model_id, max_steps |-> w.max_steps,
     planning_interval |-> w.planning_interval]

\* Mutant: the agent is built anew on every rerun.
init_agent_Always(keys, agent, w) == CodeAgent(w)

\* if "agent" not in st.session_state: st.session_state.agent = CodeAgent(...)
init_agent(keys, agent, w) == IF "agent" \notin keys THEN CodeAgent(w) ELSE agent

\* reset=not memory
agent_reset(w) == ~w.memory

\* The script from its top to the chat input, with the controls at w.
ScriptHead(w) ==
    /\ widgets' = w
    /\ session_keys' = session_keys \cup {"messages", "agent"}
    /\ session_agent' = init_agent(session_keys, session_agent, w)

\* A rerun without a prompt: the page is loaded, with the controls as they
\* are, or a control of the loaded page is changed.
Rerun(w) ==
    /\ page = "idle"
    /\ session_keys = {} => w = widgets
    /\ ScriptHead(w)
    /\ session_messages' = init_messages(session_keys, session_messages)
    /\ UNCHANGED <<page, run_reset, submitted, returned_runs>>

\* A rerun with a prompt, typed into the chat input of the loaded page, up
\* to the call of agent.run.
Submit(p) ==
    /\ page = "idle"
    /\ session_keys # {}
    /\ Len(submitted) < MaxPrompts
    /\ ScriptHead(widgets)
    /\ session_messages' = Append(init_messages(session_keys, session_messages),
                                  Message("user", p))
    /\ run_reset' = agent_reset(widgets)
    /\ submitted' = Append(submitted, p)
    /\ page' = "running"
    /\ UNCHANGED returned_runs

\* agent.run returns; the script shows and stores the answer and ends.
AgentReturns(r) ==
    /\ page = "running"
    /\ session_messages' = Append(session_messages, Message("assistant", r))
    /\ returned_runs' = returned_runs + 1
    /\ page' = "idle"
    /\ UNCHANGED <<session_keys, session_agent, widgets, run_reset, submitted>>

\* agent.run raises; the script ends at the exception.
AgentRaises ==
    /\ page = "running"
    /\ page' = "idle"
    /\ UNCHANGED <<session_keys, session_messages, session_agent, widgets,
                   run_reset, submitted, returned_runs>>

ChatInit ==
    /\ session_keys = {}
    /\ session_messages = <<>>
    /\ session_agent = NoAgent
    /\ widgets = DefaultWidgets
    /\ page = "idle"
    /\ run_reset = FALSE
    /\ submitted = <<>>
    /\ returned_runs = 0

FlightInit ==
    /\ environ \in {None, StrV("KEY")}
    /\ self = init_self(environ)
    /\ pc = [c \in Callers |-> "idle"]
    /\ args = [c \in Callers |-> EmptyDict]
    /\ request = [c \in Callers |-> EmptyDict]
    /\ branch = [c \in Callers |-> "search"]
    /\ outcome = [c \in Callers |-> NoOutcome]
    /\ ret = [c \in Callers |-> NoRet]

Init == FlightInit /\ ChatInit

\* One caller, one call at a time.
\* Keyword arguments of one call: the three required parameters, any of
\* the tokens, and up to MaxOther of the remaining optional parameters.
SeqCall ==
    /\ pc["c1"] = "idle"
    /\ \E T \in SUBSET TokenNames : \E O \in OtherSets :
         \E a \in ArgsOver(RequiredNames \cup T \cup O) : Call("c1", a)
SeqReturns == ProviderReturns("c1")
SeqRaises == ProviderRaises("c1")
SeqFinish == Finish("c1")

Next == (SeqCall \/ SeqReturns \/ SeqRaises \/ SeqFinish) /\ UNCHANGED chatVars

Spec == Init /\ [][Next]_vars

\* Two callers whose calls interleave at the provider.
ConcCall == \E c \in Callers : pc[c] = "idle" /\ \E a \in ConcArgs : Call(c, a)
ConcReturns == \E c \in Callers : ProviderReturns(c)
ConcRaises == \E c \in Callers : ProviderRaises(c)
ConcFinish == \E c \in Callers : Finish(c)

NextConc == (ConcCall \/ ConcReturns \/ ConcRaises \/ ConcFinish) /\ UNCHANGED chatVars

SpecConc == Init /\ [][NextConc]_vars

\* The chat session.
ChatRerun == \E w \in WidgetValues : Rerun(w)
ChatSubmit == \E p \in Prompts : Submit(p)
ChatReturns == \E r \in Responses : AgentReturns(r)

NextChat == (ChatRerun \/ ChatSubmit \/ ChatReturns \/ AgentRaises) /\ UNCHANGED flightVars

SpecChat == Init /\ [][NextChat]_vars

----------------------------------------------------------------------------
(* Properties *)

\* The provider field a parameter is sent under.
Key(p) == IF p = "async_search" THEN "async" ELSE p

\* The value the call of caller c binds to parameter p.
Bound(c, p) == IF p \in DOMAIN args[c] THEN args[c][p] ELSE Default(p)

Dispatched(c) == pc[c] = "dispatched"

BookingKeys == {"engine", "api_key", "booking_token", "hl", "gl", "currency"}

\* C1: whenever a call gives a booking_token, the request handed to the
\* provider has exactly the keys engine, api_key, booking_token, hl, gl and
\* currency, with booking_token equal to the given token.
C1_BookingRequestExact ==
    \A c \in Callers :
        (Dispatched(c) /\ "booking_token" \in DOMAIN args[c]) =>
            /\ DOMAIN request[c] = BookingKeys
            /\ request[c]["booking_token"] = args[c]["booking_token"]

SearchFixedKeys == {"engine", "api_key", "hl", "gl", "currency", "locale", "deep_search"}

DefaultedNames == {"adults", "children", "infants_in_seat", "infants_on_lap", "show_hidden"}

ScenarioA ==
    [p \in RequiredNames |-> StrV(Sample(p))]

ScenarioARequest(key) ==
    [k \in SearchFixedKeys \cup DefaultedNames \cup RequiredNames |->
        CASE k = "engine" -> StrV("google_flights")
          [] k = "api_key" -> key
          [] k = "hl" -> StrV("en")
          [] k = "gl" -> StrV("us")
          [] k = "currency" -> StrV("USD")
          [] k = "locale" -> StrV("en-US")
          [] k = "deep_search" -> BoolV(FALSE)
          [] k = "adults" -> IntV(1)
          [] k \in {"children", "infants_in_seat", "infants_on_lap"} -> IntV(0)
          [] k = "show_hidden" -> BoolV(FALSE)
          [] k = "departure_id" -> StrV("CDG")
          [] k = "arrival_id" -> StrV("LAX")
          [] k = "outbound_date" -> StrV("2025-06-15")]

C3_FalsyKept ==
    \A c \in Callers :
        (Dispatched(c) /\ branch[c] = "search") =>
            \A p \in OptionalNames \cap DOMAIN args[c] :
                (args[c][p] # None /\ ~Truthy(args[c][p])) =>
                    (Key(p) \in DOMAIN request[c] /\ request[c][Key(p)] = args[c][p])

\* C4: a call that has ended has returned, not raised; when the provider
\* client raised, the value returned is {"error": message}; otherwise it is
\* the provider's result unchanged. This holds in both branches.
C4_NoExceptionEscapes ==
    \A c \in Callers :
        pc[c] = "returned" =>
            /\ ~ret[c].raised
            /\ outcome[c].raised => ret[c].value = [k \in {"error"} |-> outcome[c].msg]
            /\ ~outcome[c].raised => ret[c].value = outcome[c].results

C4_Witness ==
    /\ pc["c1"] = "returned"
    /\ branch["c1"] = "booking"
    /\ outcome["c1"].raised
    /\ ret["c1"] = Returned([k \in {"error"} |-> "connection timed out"])

\* C5 as written: every request, in either mode, holds engine, api_key,
\* locale, hl, gl, currency and deep_search.
C5_AllFixedFieldsAlways ==
    \A c \in Callers : Dispatched(c) => SearchFixedKeys \subseteq DOMAIN request[c]

\* C5 amended: every request, in either mode, holds engine, api_key, hl, gl
\* and currency; a primary search request also holds locale and
\* deep_search, a booking lookup request holds neither.
C5_CommonFixedFields ==
    \A c \in Callers :
        Dispatched(c) =>
            /\ {"engine", "api_key", "hl", "gl", "currency"} \subseteq DOMAIN request[c]
            /\ request[c]["engine"] = StrV("google_flights")
            /\ request[c]["api_key"] = environ
            /\ branch[c] = "search" => {"locale", "deep_search"} \subseteq DOMAIN request[c]
            /\ branch[c] = "booking" => {"locale", "deep_search"} \cap DOMAIN request[c] = {}

C5_Witness ==
    /\ Dispatched("c1")
    /\ branch["c1"] = "booking"
    /\ DOMAIN request["c1"] = BookingKeys

\* C6: no request holds both a booking_token key and a departure_token key,
\* whatever was supplied; the request holds booking_token exactly when the
\* booking-token test passed, and then no other parameter but hl, gl and
\* currency has a key in it.
C6_TokensExclusive ==
    \A c \in Callers :
        Dispatched(c) =>
            /\ ~({"booking_token", "departure_token"} \subseteq DOMAIN request[c])
            /\ "booking_token" \in DOMAIN request[c] <=> Truthy(Bound(c, "booking_token"))
            /\ "booking_token" \in DOMAIN request[c] =>
                  DOMAIN request[c] \subseteq BookingKeys

C6_Witness ==
    /\ Dispatched("c1")
    /\ {"booking_token", "departure_token"} \subseteq DOMAIN args["c1"]
    /\ Truthy(args["c1"]["booking_token"])
    /\ Truthy(args["c1"]["departure_token"])

\* C7: every call constructs a request and hands it to the provider, also
\* with type=1 and no return_date, type=3 and no multi_city_json, or values
\* outside the documented ranges; every value in the request is the value
\* the call bound to that parameter, unchanged.
C7_NoLocalValidation ==
    \A c \in Callers :
        Dispatched(c) =>
            /\ "engine" \in DOMAIN request[c]
            /\ \A p \in ParamNames :
                  Key(p) \in DOMAIN request[c] => request[c][Key(p)] = Bound(c, p)

C7_Witness ==
    /\ Dispatched("c1")
    /\ "type" \in DOMAIN args["c1"]
    /\ args["c1"]["type"] = IntV(1)
    /\ "return_date" \notin DOMAIN args["c1"]
    /\ request["c1"]["type"] = IntV(1)
    /\ "return_date" \notin DOMAIN request["c1"]

\* C8: under any interleaving of calls the instance holds the credential
\* read at construction and nothing else; each request carries that
\* credential, and two calls in flight with equal arguments have equal
\* requests whatever calls came before or run beside them.
C8_Stateless ==
    /\ self = [k \in {"api_key"} |-> environ]
    /\ \A c \in Callers :
          Dispatched(c) =>
              /\ request[c]["api_key"] = environ
              /\ \A k \in DOMAIN request[c] \ {"engine", "api_key"} :
                    \E p \in ParamNames : Key(p) = k /\ request[c][k] = Bound(c, p)
    /\ \A c, d \in Callers :
          (Dispatched(c) /\ Dispatched(d) /\ args[c] = args[d]) => request[c] = request[d]

C8_Witness ==
    /\ Dispatched("c1")
    /\ pc["c2"] = "returned"
    /\ branch["c2"] = "booking"
    /\ branch["c1"] = "search"
    /\ "departure_token" \in DOMAIN request["c1"]

\* C9: a call with a departure_token and no booking_token builds the request
\* the same call without the token builds, plus the departure_token key with
\* the supplied value; the fixed fields and the non-empty route fields are
\* in it.
C9_DepartureTokenAdds ==
    \A c \in Callers :
        (Dispatched(c) /\ "departure_token" \in DOMAIN args[c]
                       /\ "booking_token" \notin DOMAIN args[c]) =>
            LET rest == [p \in (DOMAIN args[c]) \ {"departure_token"} |-> args[c][p]]
            IN /\ request[c] = Put(forward_request(self, rest), "departure_token",
                                   args[c]["departure_token"])
               /\ "departure_token" \notin DOMAIN forward_request(self, rest)
               /\ SearchFixedKeys \subseteq DOMAIN request[c]
               /\ \A p \in RequiredNames :
                     Truthy(args[c][p]) => (p \in DOMAIN request[c] /\ request[c][p] = args[c][p])

C9_Witness ==
    /\ Dispatched("c1")
    /\ "departure_token" \in DOMAIN args["c1"]
    /\ "booking_token" \notin DOMAIN args["c1"]
    /\ "stops" \in DOMAIN args["c1"]
    /\ request["c1"]["departure_token"] = StrV("TOK")
    /\ {"departure_id", "arrival_id", "outbound_date", "stops"} \subseteq DOMAIN request["c1"]

IsPrefix(s, t) == Len(s) <= Len(t) /\ \A i \in 1..Len(s) : s[i] = t[i]

\* The history when every agent run has returned.
Alternates ==
    returned_runs = Len(submitted) =>
        /\ Len(session_messages) = 2 * Len(submitted)
        /\ \A i \in 1..Len(submitted) :
              /\ session_messages[2 * i - 1] = Message("user", submitted[i])
              /\ session_messages[2 * i].role = "assistant"

\* C10: the chat history only grows by appending; a rerun without a prompt
\* leaves it as it is; a rerun with a prompt appends the user message when
\* the agent run starts, and the assistant message is appended only by the
\* return of that run; whenever every run has returned, the history
\* alternates user, assistant and holds two messages per submitted prompt,
\* in submission order.
C10_AppendOnlyStep ==
    /\ IsPrefix(session_messages, session_messages')
    /\ (page = "idle" /\ page' = "idle") => session_messages' = session_messages
    /\ (page = "idle" /\ page' = "running") =>
          /\ submitted' = Append(submitted, submitted'[Len(submitted')])
          /\ session_messages' =
                Append(session_messages, Message("user", submitted'[Len(submitted')]))
    /\ (page = "running" /\ returned_runs' = returned_runs) =>
          session_messages' = session_messages
    /\ (page = "running" /\ returned_runs' # returned_runs) =>
          /\ Len(session_messages') = Len(session_messages) + 1
          /\ session_messages'[Len(session_messages')].role = "assistant"
    /\ Alternates'

C10_AppendOnly == [][C10_AppendOnlyStep]_vars

C10_Witness ==
    /\ Len(submitted) = 2
    /\ returned_runs = 2
    /\ page = "idle"
    /\ Len(session_messages) = 4

\* C11: once the session holds an agent, no step replaces or changes it,
\* whatever the Model, Max Steps and Planning Interval controls are set to
\* afterwards; the agent is built once, from the controls of the rerun that
\* finds none; every agent run is started with reset equal to the negation
\* of the Memory control as it is at that rerun.
C11_AgentOnceStep ==
    /\ "agent" \in session_keys =>
          ("agent" \in session_keys' /\ session_agent' = session_agent)
    /\ ("agent" \notin session_keys /\ "agent" \in session_keys') =>
          session_agent' =
              [model_id |-> widgets'.model_id, max_steps |-> widgets'.max_steps,
               planning_interval |-> widgets'.planning_interval]
    /\ (page = "idle" /\ page' = "running") =>
          (run_reset' = ~widgets'.memory /\ session_agent' = session_agent)

C11_AgentOnce == [][C11_AgentOnceStep]_vars

C11_Witness ==
    /\ page = "running"
    /\ "agent" \in session_keys
    /\ ~widgets.memory
    /\ run_reset
    /\ session_agent.model_id # widgets.model_id
    /\ session_agent.max_steps # widgets.max_steps
    /\ session_agent.planning_interval # widgets.planning_interval

====
